---- MODULE Spec2Model ----
(***************************************************************************)
(* Model of brd-scribe-ai: the markdown section parser, the AI edit plan   *)
(* validator and the server-side AI edit (section row updates and the      *)
(* rebuild of the document text), with the client's manual update.         *)
(* The document load with its concurrent summary requests (SpecLoad), the  *)
(* client operations of useBRDProcessor (SpecClient) and                   *)
(* callOpenAIWithRetry (SpecRetry) are specifications of their own.        *)
(*                                                                         *)
(* A text is a sequence of characters (one-character strings); "\n" is the *)
(* line separator, so String.split('\n') and Array.join('\n') are the      *)
(* operators Split and Join below.                                         *)
(***************************************************************************)
EXTENDS Integers, Sequences, FiniteSets, TLC

VARIABLES
    inText,        \* SpecParse: the text handed to parseMarkdownSections
    outSections,   \* SpecParse: the list the server's parser returned
    outClient,     \* SpecParse: the list the client's parser returned
    parseStage,    \* SpecParse: "in" before the call, "out" after it
    inResponse,    \* SpecPlan: the model response handed to parseAIResponse
    outPlan,       \* SpecPlan: what parseAIResponse did with it
    planStage,     \* SpecPlan: "in" before the call, "out" after it
    docExists,       \* a brd_documents row has been inserted
    current_content, \* brd_documents.current_content of that row
    brd_sections,    \* the brd_sections rows of the document, by start_index
    ai_edits,        \* the number of ai_edits rows of the document
    pc,              \* where the server's processAIEdit is
    document,        \* processAIEdit: document.current_content as read
    sections,        \* processAIEdit: the section rows as read
    parsedResponse,  \* processAIEdit: the plan parseAIResponse returned
    rowsDone,        \* processAIEdit: entries of the plan the row loop has handled
    newContent,      \* processAIEdit: the rebuilt text
    ops,             \* manual updates and AI edits started so far
    clientSections,  \* useBRDProcessor: the sections state of the client
    loadPc,          \* SpecLoad: where processDocument is
    loadSections,    \* SpecLoad: processDocument's parsed sections
    summaries,       \* SpecLoad: the summary promise of every section
    summaryCalls,    \* SpecLoad: model requests issued for every section
    loadError,       \* SpecLoad: the error processDocument threw
    isProcessing,    \* SpecClient: useBRDProcessor's isProcessing state
    clientPc,        \* SpecClient: where the running client operation is
    clientDocument,  \* SpecClient: useBRDProcessor's document state
    documentId,      \* SpecClient: useBRDProcessor's documentId state
    toast,           \* SpecClient: the last toast shown
    thrown,          \* SpecClient: the message of the error thrown in the try block
    clientOps,       \* SpecClient: client operations finished so far
    backendCalls,    \* SpecClient: backend requests the client issued so far
    pendingUpdate,   \* SpecClient: the updateDocument in flight: its stage and value
    retryPc,         \* SpecRetry: where callOpenAIWithRetry is
    maxRetries,      \* SpecRetry: the maxRetries argument
    apiKey,          \* SpecRetry: OPENAI_API_KEY is configured
    attempt,         \* SpecRetry: the loop variable
    requestLog,      \* SpecRetry: the outcome of every request made so far
    waits,           \* SpecRetry: the seconds of every backoff wait so far
    retryResult      \* SpecRetry: what the call returned or threw

parseVars == <<inText, outSections, outClient, parseStage>>
planVars == <<inResponse, outPlan, planStage>>

dbVars == <<docExists, current_content, brd_sections, ai_edits>>
editVars == <<pc, document, sections, parsedResponse, rowsDone, newContent>>
sysVars == <<docExists, current_content, brd_sections, ai_edits,
             pc, document, sections, parsedResponse, rowsDone, newContent, ops,
             clientSections>>

loadVars == <<loadPc, loadSections, summaries, summaryCalls, loadError>>
clientVars == <<isProcessing, clientPc, clientDocument, documentId, toast, thrown, clientOps,
                backendCalls, pendingUpdate>>
retryVars == <<retryPc, maxRetries, apiKey, attempt, requestLog, waits, retryResult>>
auxVars == <<loadVars, clientVars, retryVars>>

vars == <<inText, outSections, outClient, parseStage, inResponse, outPlan, planStage,
          docExists, current_content, brd_sections, ai_edits,
          pc, document, sections, parsedResponse, rowsDone, newContent, ops,
          clientSections, loadPc, loadSections, summaries, summaryCalls, loadError,
          isProcessing, clientPc, clientDocument, documentId, toast, thrown, clientOps,
          backendCalls, pendingUpdate,
          retryPc, maxRetries, apiKey, attempt, requestLog, waits, retryResult>>

(***************************************************************************)
(* Characters and strings                                                  *)
(***************************************************************************)
NL == "\n"

\* JavaScript's \s and String.prototype.trim() whitespace (the part of it the
\* model's alphabet can hold).
IsSpace(c) == c \in {" ", "\t", "\r", NL}

\* What the regular expression's "." matches: anything but a line terminator.
IsDot(c) == c \notin {NL, "\r"}

Min(S) == CHOOSE x \in S : \A y \in S : x <= y
Max(S) == CHOOSE x \in S : \A y \in S : x >= y

\* content.split('\n')
RECURSIVE Split(_)
Split(s) ==
    LET nls == {i \in 1..Len(s) : s[i] = NL}
    IN  IF nls = {} THEN <<s>>
        ELSE LET k == Min(nls)
             IN  <<SubSeq(s, 1, k - 1)>> \o Split(SubSeq(s, k + 1, Len(s)))

\* lines.join('\n')
RECURSIVE Join(_)
Join(ls) ==
    IF ls = <<>> THEN <<>>
    ELSE IF Len(ls) = 1 THEN ls[1]
    ELSE ls[1] \o <<NL>> \o Join(Tail(ls))

\* s.trim()
Trim(s) ==
    LET keep == {i \in 1..Len(s) : ~IsSpace(s[i])}
    IN  IF keep = {} THEN <<>> ELSE SubSeq(s, Min(keep), Max(keep))

\* array.slice(from, to) with 0-based bounds, clipped as JavaScript clips them
Slice(a, from, to) ==
    SubSeq(a, from + 1, IF to < Len(a) THEN to ELSE Len(a))

\* '#'.repeat(n)
RECURSIVE Repeat(_, _)
Repeat(c, n) == IF n <= 0 THEN <<>> ELSE <<c>> \o Repeat(c, n - 1)

\* The number of leading characters of s that satisfy the test set.
RECURSIVE LeadingHashes(_)
LeadingHashes(s) ==
    IF s # <<>> /\ Head(s) = "#" THEN 1 + LeadingHashes(Tail(s)) ELSE 0

RECURSIVE LeadingSpaces(_)
LeadingSpaces(s) ==
    IF s # <<>> /\ IsSpace(Head(s)) THEN 1 + LeadingSpaces(Tail(s)) ELSE 0

(***************************************************************************)
(* line.match(/^(#+)\s+(.+)$/): greedy (#+) takes every leading '#', greedy *)
(* \s+ takes the whole whitespace run unless nothing would be left for     *)
(* (.+), in which case it gives its last character back; (.+)$ must then   *)
(* reach the end of the line without meeting a line terminator.            *)
(***************************************************************************)
HeaderMatch(line) ==
    LET h     == LeadingHashes(line)
        rest  == SubSeq(line, h + 1, Len(line))
        w     == LeadingSpaces(rest)
        tail  == SubSeq(rest, w + 1, Len(rest))
        group == IF tail # <<>> THEN tail
                 ELSE IF w >= 2 THEN <<rest[w]>>
                 ELSE <<>>
        ok    == /\ h >= 1
                 /\ w >= 1
                 /\ group # <<>>
                 /\ \A i \in 1..Len(group) : IsDot(group[i])
    IN  [ok |-> ok, level |-> h, title |-> group]

\* Mutant: the section is closed on the line that opens the next one.
CloseSectionLate(cur, contentLines, endIndex) ==
    [title       |-> cur.title,
     level       |-> cur.level,
     start_index |-> cur.start_index,
     content     |-> Trim(Join(contentLines)),
     end_index   |-> endIndex + 1]

\* The section pushed when a heading or the end of the text closes the open one.
CloseSection(cur, contentLines, endIndex) ==
    [title       |-> cur.title,
     level       |-> cur.level,
     start_index |-> cur.start_index,
     content     |-> Trim(Join(contentLines)),
     end_index   |-> endIndex]

\* The lines.forEach of the server's parseMarkdownSections from line i on (1-based;
\* the code's index is i - 1). cur is <<>> (currentSection null) or <<section>>.
RECURSIVE ParseFrom(_, _, _, _, _)
ParseFrom(lines, i, parsed, cur, contentLines) ==
    IF i > Len(lines)
    THEN IF cur # <<>>
         THEN Append(parsed, CloseSection(cur[1], contentLines, Len(lines) - 1))
         ELSE parsed
    ELSE LET headerMatch == HeaderMatch(lines[i])
             index == i - 1
         IN  IF headerMatch.ok
             THEN ParseFrom(lines, i + 1,
                            IF cur # <<>>
                            THEN Append(parsed,
                                        CloseSection(cur[1], contentLines, index - 1))
                            ELSE parsed,
                            <<[title |-> headerMatch.title,
                               level |-> headerMatch.level,
                               start_index |-> index]>>,
                            <<>>)
             ELSE IF cur # <<>>
             THEN ParseFrom(lines, i + 1, parsed, cur, Append(contentLines, lines[i]))
             ELSE ParseFrom(lines, i + 1, parsed, cur, contentLines)

\* Mutant: the scan starts with a section open at line 0, so the lines before
\* the first heading are captured.
parseMarkdownSectionsPreamble(content) ==
    ParseFrom(Split(content), 1, <<>>,
              <<[title |-> <<>>, level |-> 0, start_index |-> 0]>>, <<>>)

\* The server's parseMarkdownSections(content).
parseMarkdownSections(content) == ParseFrom(Split(content), 1, <<>>, <<>>, <<>>)

\* Mutant: the client keeps the content of a section as it was joined, with
\* its leading and trailing whitespace.
CloseSectionClientUntrimmed(cur, contentLines, endIndex) ==
    [title      |-> cur.title,
     level      |-> cur.level,
     startIndex |-> cur.startIndex,
     content    |-> Join(contentLines),
     endIndex   |-> endIndex]

\* The client's copy (useBRDProcessor.ts): the same scan, with the fields of the
\* client's Section type (startIndex, endIndex).
CloseSectionClient(cur, contentLines, endIndex) ==
    [title      |-> cur.title,
     level      |-> cur.level,
     startIndex |-> cur.startIndex,
     content    |-> Trim(Join(contentLines)),
     endIndex   |-> endIndex]

RECURSIVE ParseFromClient(_, _, _, _, _)
ParseFromClient(lines, i, parsedSections, cur, contentLines) ==
    IF i > Len(lines)
    THEN IF cur # <<>>
         THEN Append(parsedSections,
                     CloseSectionClient(cur[1], contentLines, Len(lines) - 1))
         ELSE parsedSections
    ELSE LET headerMatch == HeaderMatch(lines[i])
             index == i - 1
         IN  IF headerMatch.ok
             THEN ParseFromClient(lines, i + 1,
                                  IF cur # <<>>
                                  THEN Append(parsedSections,
                                              CloseSectionClient(cur[1], contentLines,
                                                                 index - 1))
                                  ELSE parsedSections,
                                  <<[title |-> headerMatch.title,
                                     level |-> headerMatch.level,
                                     startIndex |-> index]>>,
                                  <<>>)
             ELSE IF cur # <<>>
             THEN ParseFromClient(lines, i + 1, parsedSections, cur,
                                  Append(contentLines, lines[i]))
             ELSE ParseFromClient(lines, i + 1, parsedSections, cur, contentLines)

parseMarkdownSectionsClient(content) ==
    ParseFromClient(Split(content), 1, <<>>, <<>>, <<>>)

(***************************************************************************)
(* Inputs of the parser specification                                      *)
(***************************************************************************)
MaxParseLines == 5

ParseLinePool ==
    { <<"#", " ", "a">>,            \* "# a"
      <<"#", "#", " ", "b">>,       \* "## b"
      <<"#", " ", "a", " ">>,       \* "# a " (trailing blank)
      <<"#", " ", " ">>,            \* "#  "  (only blanks after the marks)
      <<"#", "a">>,                 \* "#a"   (no blank after the mark)
      <<" ", "x">>,                 \* " x"  (text with a leading blank)
      <<>> }

RECURSIVE SeqsUpTo(_, _)
SeqsUpTo(S, n) ==
    IF n = 0 THEN {<<>>}
    ELSE LET shorter == SeqsUpTo(S, n - 1)
         IN  shorter \cup {Append(q, x) : q \in shorter, x \in S}

(***************************************************************************)
(* The planner's response and parseAIResponse                              *)
(*                                                                         *)
(* A response text is its wrapping (bare, a ```json fence, a ``` fence,    *)
(* prose around it) and its payload: text that is no JSON, the JSON null,  *)
(* a JSON number, or a JSON object with the three plan fields. A JSON      *)
(* value is a record [kind, val] (val: the characters of a string or of a  *)
(* number), a plan field a record [kind, items].                           *)
(***************************************************************************)
JUndef == [kind |-> "undef", val |-> <<>>]
JNull == [kind |-> "null", val |-> <<>>]
JStr(s) == [kind |-> "str", val |-> s]
JNum(digits) == [kind |-> "num", val |-> digits]

\* JavaScript truthiness of a JSON value: !v is false.
Truthy(v) ==
    CASE v.kind = "str" -> v.val # <<>>
      [] v.kind = "num" -> v.val # <<"0">>
      [] OTHER -> FALSE

FUndef == [kind |-> "undef", items |-> <<>>]
FNull == [kind |-> "null", items |-> <<>>]
FStr == [kind |-> "str", items |-> <<>>]
FList(items) == [kind |-> "list", items |-> items]

\* An entry of updatedSections: the JSON null, a JSON string, or an object.
EntryNull == [kind |-> "null", title |-> JUndef, content |-> JUndef]
EntryStr == [kind |-> "str", title |-> JUndef, content |-> JUndef]
EntryObj(t, c) == [kind |-> "obj", title |-> t, content |-> c]

PayloadOf(k, stu, us, soc) ==
    [kind |-> k, sectionsToUpdate |-> stu, updatedSections |-> us,
     summaryOfChanges |-> soc]
Garbage == PayloadOf("garbage", FUndef, FUndef, FUndef)
PlanObject(stu, us, soc) == PayloadOf("object", stu, us, soc)

\* Lines 307-320: what is left for JSON.parse after trim, the removal of a
\* code fence and the match of /\{[\s\S]*\}/. An object's text survives every
\* wrapping; a payload without braces is not cut out of the prose around it.
CleanResponse(responseText) ==
    IF responseText.payload.kind = "object" THEN responseText.payload
    ELSE IF responseText.wrap = "prose" THEN Garbage
    ELSE responseText.payload

Threw(message) == [threw |-> TRUE, message |-> message,
                   value |-> [sectionsToUpdate |-> FUndef,
                              updatedSections |-> FUndef,
                              summaryOfChanges |-> FUndef]]
Returned(parsed) == [threw |-> FALSE, message |-> "",
                     value |-> [sectionsToUpdate |-> parsed.sectionsToUpdate,
                                updatedSections |-> parsed.updatedSections,
                                summaryOfChanges |-> parsed.summaryOfChanges]]

\* Mutant: the field is only tested for truthiness, not for being an array.
IsTruthyField(f) == f.kind \in {"str", "list"}

\* !field || !Array.isArray(field): an array, empty or not, is truthy.
IsArrayField(f) == f.kind = "list"

\* Mutant: only the title of an entry is required.
EntryFaultTitleOnly(section) ==
    CASE section.kind = "null" -> "Cannot read properties of null (reading 'title')"
      [] section.kind = "str" -> "Updated section missing title or content"
      [] ~Truthy(section.title) -> "Updated section missing title or content"
      [] OTHER -> ""

\* Line 339 for one entry: reading .title of null raises a TypeError; a string
\* has no title; an object needs a truthy title and a truthy content.
EntryFault(section) ==
    CASE section.kind = "null" -> "Cannot read properties of null (reading 'title')"
      [] section.kind = "str" -> "Updated section missing title or content"
      [] ~Truthy(section.title) \/ ~Truthy(section.content) ->
             "Updated section missing title or content"
      [] OTHER -> ""

\* Lines 305-344, the body of the try: JSON.parse, then the validation.
TryParseAIResponse(responseText) ==
    LET parsed == CleanResponse(responseText)
        entries == parsed.updatedSections.items
        bad == {i \in 1..Len(entries) : EntryFault(entries[i]) # ""}
    IN  IF parsed.kind = "garbage"
        THEN Threw("Unexpected token in JSON")
        ELSE IF parsed.kind = "null"
        THEN Threw("Cannot read properties of null (reading 'sectionsToUpdate')")
        ELSE IF ~IsArrayField(parsed.sectionsToUpdate)
        THEN Threw("Missing or invalid sectionsToUpdate array")
        ELSE IF ~IsArrayField(parsed.updatedSections)
        THEN Threw("Missing or invalid updatedSections array")
        ELSE IF ~IsArrayField(parsed.summaryOfChanges)
        THEN Threw("Missing or invalid summaryOfChanges array")
        ELSE IF bad # {}
        THEN Threw(EntryFault(entries[Min(bad)]))
        ELSE Returned(parsed)

\* Lines 350-354: the fallback response of the catch.
FallbackPlan(message) ==
    [sectionsToUpdate |-> FList(<<>>),
     updatedSections  |-> FList(<<>>),
     summaryOfChanges |-> FList(<<JStr(<<"Error processing request: ", message>>)>>)]

\* parseAIResponse(responseText): the catch takes every exception of the try.
parseAIResponse(responseText) ==
    LET tried == TryParseAIResponse(responseText)
    IN  IF tried.threw
        THEN [raised |-> FALSE, plan |-> FallbackPlan(tried.message)]
        ELSE [raised |-> FALSE, plan |-> tried.value]

(***************************************************************************)
(* Inputs of the plan specification                                        *)
(***************************************************************************)
MaxPlanEntries == 2

Wraps == {"bare", "json_fence", "fence", "prose"}

PlanTitles == {JUndef, JStr(<<>>), JStr(<<"a">>), JNum(<<"5">>)}
PlanContents == {JUndef, JStr(<<>>), JStr(<<"p">>), JNum(<<"5">>)}
PlanEntries ==
    {EntryNull, EntryStr} \cup {EntryObj(t, c) : t \in PlanTitles, c \in PlanContents}

InfoFields == {FUndef, FStr, FList(<<>>), FList(<<JStr(<<"c">>)>>)}
UpdatedFields ==
    {FUndef, FNull, FStr} \cup {FList(es) : es \in SeqsUpTo(PlanEntries, MaxPlanEntries)}

Payloads ==
    {Garbage, PayloadOf("null", FUndef, FUndef, FUndef),
     PayloadOf("number", FUndef, FUndef, FUndef)}
    \cup {PlanObject(stu, us, soc) :
              stu \in InfoFields, us \in UpdatedFields, soc \in InfoFields}

Responses == {[wrap |-> w, payload |-> p] : w \in Wraps, p \in Payloads}

(***************************************************************************)
(* The server: processDocument and processAIEdit                           *)
(***************************************************************************)
\* generateAISummary(content): 'Empty section' for blank content without a model
\* call; otherwise the model's summary of the content (ok) or, when the call
\* fails after its retries, 'Summary generation failed'.
generateAISummary(content, ok) ==
    IF Trim(content) = <<>> THEN [kind |-> "Empty section", of |-> <<>>]
    ELSE IF ok THEN [kind |-> "summary", of |-> content]
    ELSE [kind |-> "Summary generation failed", of |-> <<>>]

\* The brd_sections row of a parsed section (processDocument, lines 73-83).
SectionRow(section, summary) ==
    [title       |-> section.title,
     level       |-> section.level,
     content     |-> section.content,
     summary     |-> summary,
     start_index |-> section.start_index,
     end_index   |-> section.end_index]

\* A row without its summary: a section as parseMarkdownSections returns it.
StoredSection(row) ==
    [title       |-> row.title,
     level       |-> row.level,
     start_index |-> row.start_index,
     content     |-> row.content,
     end_index   |-> row.end_index]

StoredSections(rows) == [i \in 1..Len(rows) |-> StoredSection(rows[i])]

\* Mutant: titles are compared without regard to case ("A" finds "a").
Lower(c) == IF c = "A" THEN "a" ELSE IF c = "B" THEN "b" ELSE c
FindSectionIgnoreCase(rows, title) ==
    LET same(t) == /\ Len(t) = Len(title.val)
                   /\ \A i \in 1..Len(t) : Lower(t[i]) = Lower(title.val[i])
        hits == {i \in 1..Len(rows) : title.kind = "str" /\ same(rows[i].title)}
    IN  IF hits = {} THEN 0 ELSE Min(hits)

\* sections.find(s => s.title === updatedSection.title): the position of the first
\* row with that title, 0 for undefined. === never equates a string and a number.
FindSection(rows, title) ==
    LET hits == {i \in 1..Len(rows) : title.kind = "str" /\ rows[i].title = title.val}
    IN  IF hits = {} THEN 0 ELSE Min(hits)

\* Line 184: the heading rebuilt from the row's level and the entry's title, a
\* line break, the entry's content.
NewSectionContent(section, updatedSection) ==
    Repeat("#", section.level) \o <<" ">> \o updatedSection.title.val
        \o <<NL>> \o updatedSection.content.val

\* Lines 181-185: one splice of the text at the row's stored line range.
SpliceSection(text, section, updatedSection) ==
    LET lines == Split(text)
        before == Slice(lines, 0, section.start_index)
        after == Slice(lines, section.end_index + 1, Len(lines))
    IN  Join(before \o <<NewSectionContent(section, updatedSection)>> \o after)

\* Mutant: the text is re-joined with a closing line break even when no entry
\* is applied (the earlier revision's patcher appended one per block).
RECURSIVE RebuildContentNewline(_, _, _)
RebuildContentNewline(text, rows, updatedSections) ==
    IF updatedSections = <<>> THEN text \o <<NL>>
    ELSE LET j == FindSection(rows, Head(updatedSections).title)
         IN  RebuildContentNewline(
                 IF j = 0 THEN text ELSE SpliceSection(text, rows[j], Head(updatedSections)),
                 rows, Tail(updatedSections))

\* Lines 177-187: the rebuild loop. Every entry is spliced into the text the
\* previous entries left, at the line range its row had when it was read.
RECURSIVE RebuildContent(_, _, _)
RebuildContent(text, rows, updatedSections) ==
    IF updatedSections = <<>> THEN text
    ELSE LET j == FindSection(rows, Head(updatedSections).title)
         IN  RebuildContent(
                 IF j = 0 THEN text ELSE SpliceSection(text, rows[j], Head(updatedSections)),
                 rows, Tail(updatedSections))

(***************************************************************************)
(* The client's section list (useBRDProcessor)                             *)
(***************************************************************************)
\* A Section object without a summary property (summary?: string is absent).
NoSummary == [kind |-> "undefined", of |-> <<>>]

\* loadDocument lines 41-48 and processAIEdit lines 157-164: a row of the
\* backend as a Section of the client.
ClientSection(row) ==
    [title      |-> row.title,
     level      |-> row.level,
     content    |-> row.content,
     summary    |-> row.summary,
     startIndex |-> row.start_index,
     endIndex   |-> row.end_index]

ClientSections(rows) == [i \in 1..Len(rows) |-> ClientSection(rows[i])]

\* updateDocument lines 88-89: the list the client's parser returns becomes the
\* sections state as it is; the parser sets title, level, content, startIndex
\* and endIndex and no summary.
ReparsedSections(content) ==
    LET parsedSections == parseMarkdownSectionsClient(content)
    IN  [i \in 1..Len(parsedSections) |->
            [title      |-> parsedSections[i].title,
             level      |-> parsedSections[i].level,
             content    |-> parsedSections[i].content,
             summary    |-> NoSummary,
             startIndex |-> parsedSections[i].startIndex,
             endIndex   |-> parsedSections[i].endIndex]]

(***************************************************************************)
(* Inputs of the system specifications                                     *)
(***************************************************************************)
MaxDocLines == 3     \* lines of a loaded or manually saved text
MaxReplacements == 2 \* entries of updatedSections in a planner response
MaxOps == 2          \* manual updates and AI edits after the load

DocLinePool ==
    { <<"#", " ", "a">>,            \* "# a"
      <<"#", "#", " ", "b">>,       \* "## b"
      <<"x">> }

\* The entries a planner response may hold: titles "a", "b" and "A" (no section
\* has the title "A"), a two-line content, and one entry whose content is the
\* JSON number 5.
EditEntries ==
    {EntryObj(JStr(<<t>>), JStr(<<"p", NL, "q">>)) : t \in {"a", "b", "A"}}
    \cup {EntryObj(JStr(<<"b">>), JStr(<<"r">>)),
          EntryObj(JStr(<<"b">>), JNum(<<"5">>))}

\* The planner's responses: every plan of up to MaxReplacements entries, and a
\* response that is no JSON.
EditResponses ==
    {[wrap |-> "bare", payload |-> Garbage]}
    \cup {[wrap |-> "json_fence",
           payload |-> PlanObject(FList(<<>>), FList(es), FList(<<JStr(<<"c">>)>>))] :
              es \in SeqsUpTo(EditEntries, MaxReplacements)}

NoPlan == FallbackPlan("")

(***************************************************************************)
(* Initial states                                                          *)
(***************************************************************************)
ParseIdle ==
    /\ inText = <<>>
    /\ outSections = <<>>
    /\ outClient = <<>>
    /\ parseStage = "off"

PlanIdle ==
    /\ inResponse = [wrap |-> "bare", payload |-> Garbage]
    /\ outPlan = [raised |-> FALSE, plan |-> NoPlan]
    /\ planStage = "off"

\* Nothing is stored and no request is running.
SysInit ==
    /\ docExists = FALSE
    /\ current_content = <<>>
    /\ brd_sections = <<>>
    /\ ai_edits = 0
    /\ pc = "idle"
    /\ document = <<>>
    /\ sections = <<>>
    /\ parsedResponse = NoPlan
    /\ rowsDone = 0
    /\ newContent = <<>>
    /\ ops = 0
    /\ clientSections = <<>>

LoadIdle ==
    /\ loadPc = "off"
    /\ loadSections = <<>>
    /\ summaries = <<>>
    /\ summaryCalls = <<>>
    /\ loadError = "none"

\* useBRDProcessor.ts lines 7-10: the state of the hook before any operation.
NoToast == [title |-> "", description |-> "", variant |-> "none"]

ClientState ==
    /\ isProcessing = FALSE
    /\ clientDocument = <<>>
    /\ documentId = ""
    /\ toast = NoToast
    /\ thrown = ""
    /\ clientOps = 0
    /\ backendCalls = 0
    /\ pendingUpdate = <<>>

ClientIdle ==
    /\ ClientState
    /\ clientPc = "off"

NoResult == [kind |-> "none", text |-> "", attempts |-> 0]

RetryIdle ==
    /\ retryPc = "off"
    /\ maxRetries = 3
    /\ apiKey = TRUE
    /\ attempt = 0
    /\ requestLog = <<>>
    /\ waits = <<>>
    /\ retryResult = NoResult

AuxIdle == LoadIdle /\ ClientIdle /\ RetryIdle

\* Every text of 1..MaxParseLines lines of the pool (a text always has a line).
ParseInit ==
    /\ \E n \in 1..MaxParseLines : \E ls \in [1..n -> ParseLinePool] : inText = Join(ls)
    /\ outSections = <<>>
    /\ outClient = <<>>
    /\ parseStage = "in"
    /\ PlanIdle
    /\ SysInit
    /\ AuxIdle

PlanInit ==
    /\ inResponse \in Responses
    /\ outPlan = [raised |-> FALSE, plan |-> NoPlan]
    /\ planStage = "in"
    /\ ParseIdle
    /\ SysInit
    /\ AuxIdle

Init ==
    /\ ParseIdle
    /\ PlanIdle
    /\ SysInit
    /\ AuxIdle

(***************************************************************************)
(* Actions of the parser and plan specifications                           *)
(***************************************************************************)
\* The text is parsed on the server (processDocument) ...
ParseServer ==
    /\ parseStage = "in"
    /\ outSections' = parseMarkdownSections(inText)
    /\ parseStage' = "server"
    /\ UNCHANGED <<inText, outClient, planVars, sysVars, auxVars>>

\* ... and on the client (updateDocument).
ParseClient ==
    /\ parseStage = "server"
    /\ outClient' = parseMarkdownSectionsClient(inText)
    /\ parseStage' = "out"
    /\ UNCHANGED <<inText, outSections, planVars, sysVars, auxVars>>

ParseNext == ParseServer \/ ParseClient

SpecParse == ParseInit /\ [][ParseNext]_vars

ParseResponse ==
    /\ planStage = "in"
    /\ outPlan' = parseAIResponse(inResponse)
    /\ planStage' = "out"
    /\ UNCHANGED <<inResponse, parseVars, sysVars, auxVars>>

PlanNext == ParseResponse

SpecPlan == PlanInit /\ [][PlanNext]_vars

(***************************************************************************)
(* Actions of the system                                                   *)
(***************************************************************************)
\* processDocument (lines 49-101): the document row is inserted with the text,
\* the text is parsed, a summary is generated for every section (each call may
\* fail on its own), and the rows are inserted.
ProcessDocument ==
    /\ ~docExists
    /\ \E n \in 1..MaxDocLines : \E ls \in [1..n -> DocLinePool] :
         LET content == Join(ls)
             parsed == parseMarkdownSections(content)
         IN  \E ok \in [1..Len(parsed) -> BOOLEAN] :
               /\ docExists' = TRUE
               /\ current_content' = content
               /\ brd_sections' =
                      [i \in 1..Len(parsed) |->
                          SectionRow(parsed[i],
                                     generateAISummary(parsed[i].content, ok[i]))]
               /\ clientSections' = ClientSections(brd_sections')
    /\ UNCHANGED <<ai_edits, editVars, ops, parseVars, planVars, auxVars>>

\* The client's updateDocument (useBRDProcessor.ts, lines 66-101): the saved text
\* is written to brd_documents.current_content; no brd_sections row is touched.
UpdateDocument ==
    /\ docExists
    /\ \E n \in 1..MaxDocLines : \E ls \in [1..n -> DocLinePool] :
         /\ current_content' = Join(ls)
         /\ clientSections' = ReparsedSections(Join(ls))
    /\ ops' = ops + 1
    /\ UNCHANGED <<docExists, brd_sections, ai_edits, editVars, parseVars, planVars, auxVars>>

\* processAIEdit, lines 107-126: the document and its section rows are read.
EditRead ==
    /\ pc = "idle"
    /\ docExists
    /\ pc' = "plan"
    /\ document' = current_content
    /\ sections' = brd_sections
    /\ parsedResponse' = NoPlan
    /\ rowsDone' = 0
    /\ newContent' = <<>>
    /\ ops' = ops + 1
    /\ UNCHANGED <<dbVars, clientSections,
                   parseVars, planVars, auxVars>>

\* Lines 129-159: the planner answers and parseAIResponse turns the answer into
\* a plan.
EditPlan ==
    /\ pc = "plan"
    /\ \E aiResponse \in EditResponses :
         parsedResponse' = parseAIResponse(aiResponse).plan
    /\ pc' = "rows"
    /\ UNCHANGED <<dbVars, document, sections, rowsDone, newContent, ops, clientSections,
                   parseVars, planVars, auxVars>>

\* Line 129: callOpenAIWithRetry throws after its last attempt; nothing has been
\* written.
EditPlanFails ==
    /\ pc = "plan"
    /\ pc' = "failed"
    /\ UNCHANGED <<dbVars, document, sections, parsedResponse, rowsDone, newContent, ops,
                   clientSections, parseVars, planVars, auxVars>>

\* Lines 162-174, one iteration of the row loop: an entry without a row is
\* passed over; for the others generateAISummary is called (content.trim() raises
\* a TypeError when the content is no string, line 233) and the row is updated.
EditUpdateRow ==
    /\ pc = "rows"
    /\ rowsDone < Len(parsedResponse.updatedSections.items)
    /\ LET updatedSection == parsedResponse.updatedSections.items[rowsDone + 1]
           j == FindSection(sections, updatedSection.title)
       IN  IF j = 0
           THEN /\ rowsDone' = rowsDone + 1
                /\ UNCHANGED <<pc, brd_sections>>
           ELSE IF updatedSection.content.kind # "str"
           THEN /\ pc' = "failed"
                /\ UNCHANGED <<rowsDone, brd_sections>>
           ELSE \E ok \in BOOLEAN :
                  /\ brd_sections' =
                         [brd_sections EXCEPT
                            ![j].content = updatedSection.content.val,
                            ![j].summary =
                                generateAISummary(updatedSection.content.val, ok)]
                  /\ rowsDone' = rowsDone + 1
                  /\ UNCHANGED pc
    /\ UNCHANGED <<docExists, current_content, ai_edits, document, sections,
                   parsedResponse, newContent, ops, clientSections, parseVars, planVars, auxVars>>

\* Mutant: the text is rebuilt and written while entries of the row loop are
\* still to be handled.
EditWriteEarly ==
    /\ pc = "rows"
    /\ rowsDone <= Len(parsedResponse.updatedSections.items)
    /\ newContent' = RebuildContent(document, sections, parsedResponse.updatedSections.items)
    /\ current_content' = newContent'
    /\ pc' = "history"
    /\ UNCHANGED <<docExists, brd_sections, ai_edits, document, sections,
                   parsedResponse, rowsDone, ops, clientSections, parseVars, planVars, auxVars>>

\* Lines 176-193: the text is rebuilt from the text read and written back.
EditWrite ==
    /\ pc = "rows"
    /\ rowsDone = Len(parsedResponse.updatedSections.items)
    /\ newContent' = RebuildContent(document, sections, parsedResponse.updatedSections.items)
    /\ current_content' = newContent'
    /\ pc' = "history"
    /\ UNCHANGED <<docExists, brd_sections, ai_edits, document, sections,
                   parsedResponse, rowsDone, ops, clientSections, parseVars, planVars, auxVars>>

\* Lines 195-212: the edit is recorded and the response returned; the client
\* (useBRDProcessor.ts lines 150-165) reads the rows again and, unless that read
\* fails, makes them its sections.
EditHistory ==
    /\ pc = "history"
    /\ ai_edits' = ai_edits + 1
    /\ pc' = "idle"
    /\ \/ clientSections' = ClientSections(brd_sections)
       \/ UNCHANGED clientSections
    /\ UNCHANGED <<docExists, current_content, brd_sections, document, sections,
                   parsedResponse, rowsDone, newContent, ops, parseVars, planVars, auxVars>>

\* Lines 37-46 and 213-216: the error is logged and answered with status 500.
EditFailed ==
    /\ pc = "failed"
    /\ pc' = "idle"
    /\ UNCHANGED <<dbVars, document, sections, parsedResponse, rowsDone, newContent, ops,
                   clientSections, parseVars, planVars, auxVars>>

EditStep ==
    \/ EditPlan
    \/ EditPlanFails
    \/ EditUpdateRow
    \/ EditWrite
    \/ EditHistory
    \/ EditFailed

\* The system: one document is loaded, then saved by hand and edited by the
\* planner up to MaxOps times; a manual save may fall between the steps of an
\* AI edit.
Next ==
    \/ ProcessDocument
    \/ (ops < MaxOps /\ UpdateDocument)
    \/ (ops < MaxOps /\ EditRead)
    \/ EditStep

Spec == Init /\ [][Next]_vars

\* One AI edit of a freshly loaded document.
EditNext ==
    \/ ProcessDocument
    \/ (ops = 0 /\ EditRead)
    \/ EditStep

SpecEdit == Init /\ [][EditNext]_vars

(***************************************************************************)
(* The document load, step by step (SpecLoad)                              *)
(*                                                                         *)
(* processDocument awaits Promise.all over one generateAISummary promise   *)
(* per section: the requests are outstanding together and resolve in any   *)
(* order.                                                                  *)
(***************************************************************************)
MaxLoadLines == 5    \* lines of a text loaded in SpecLoad

Pending == [kind |-> "pending", of |-> <<>>]

\* Line 233: blank content returns before any request is made.
IsBlank(content) == Trim(content) = <<>>

LoadInit ==
    /\ ParseIdle
    /\ PlanIdle
    /\ SysInit
    /\ loadPc = "start"
    /\ loadSections = <<>>
    /\ summaries = <<>>
    /\ summaryCalls = <<>>
    /\ loadError = "none"
    /\ ClientIdle
    /\ RetryIdle

\* Lines 54-78: the document row is inserted (or the insert fails and the load
\* throws), the text is parsed and generateAISummary is called for every
\* section: a blank section resolves at once, the others issue their request.
LoadInsertDocument ==
    /\ loadPc = "start"
    /\ \/ /\ loadPc' = "failed"
          /\ loadError' = "Failed to save document"
          /\ UNCHANGED <<docExists, current_content, loadSections, summaries, summaryCalls>>
       \/ \E n \in 1..MaxLoadLines : \E ls \in [1..n -> DocLinePool] :
            LET content == Join(ls)
                parsed == parseMarkdownSections(content)
            IN  /\ docExists' = TRUE
                /\ current_content' = content
                /\ loadSections' = parsed
                /\ summaries' =
                       [i \in 1..Len(parsed) |->
                           IF IsBlank(parsed[i].content)
                           THEN generateAISummary(parsed[i].content, TRUE)
                           ELSE Pending]
                /\ summaryCalls' =
                       [i \in 1..Len(parsed) |->
                           IF IsBlank(parsed[i].content) THEN 0 ELSE 1]
                /\ loadPc' = "summaries"
                /\ UNCHANGED loadError
    /\ UNCHANGED <<brd_sections, ai_edits, editVars, ops, clientSections,
                   parseVars, planVars, clientVars, retryVars>>

\* Lines 235-251: one outstanding request resolves, with the model's summary or,
\* after the retries failed, with the placeholder of the catch block.
SummaryResolve ==
    /\ loadPc = "summaries"
    /\ \E i \in 1..Len(summaries) : \E ok \in BOOLEAN :
         /\ summaries[i] = Pending
         /\ summaries' =
                [summaries EXCEPT ![i] = generateAISummary(loadSections[i].content, ok)]
    /\ UNCHANGED <<loadPc, loadSections, summaryCalls, loadError, sysVars,
                   parseVars, planVars, clientVars, retryVars>>

\* Mutant: the rows are inserted without waiting for the summaries.
LoadInsertSectionsEarly ==
    /\ loadPc = "summaries"
    /\ \/ /\ loadPc' = "failed"
          /\ loadError' = "Failed to save sections"
          /\ UNCHANGED brd_sections
       \/ /\ brd_sections' =
                 [i \in 1..Len(loadSections) |-> SectionRow(loadSections[i], summaries[i])]
          /\ loadPc' = "stored"
          /\ UNCHANGED loadError
    /\ UNCHANGED <<docExists, current_content, ai_edits, editVars, ops, clientSections,
                   loadSections, summaries, summaryCalls, parseVars, planVars, clientVars, retryVars>>

\* Lines 73-96: once Promise.all has resolved the rows are inserted (or the
\* insert fails and the load throws) and the response is returned.
LoadInsertSections ==
    /\ loadPc = "summaries"
    /\ \A i \in 1..Len(summaries) : summaries[i] # Pending
    /\ \/ /\ loadPc' = "failed"
          /\ loadError' = "Failed to save sections"
          /\ UNCHANGED brd_sections
       \/ /\ brd_sections' =
                 [i \in 1..Len(loadSections) |-> SectionRow(loadSections[i], summaries[i])]
          /\ loadPc' = "stored"
          /\ UNCHANGED loadError
    /\ UNCHANGED <<docExists, current_content, ai_edits, editVars, ops, clientSections,
                   loadSections, summaries, summaryCalls, parseVars, planVars, clientVars, retryVars>>

LoadNext ==
    \/ LoadInsertDocument
    \/ SummaryResolve
    \/ LoadInsertSections

SpecLoad == LoadInit /\ [][LoadNext]_vars

(***************************************************************************)
(* The client operations loadDocument and processAIEdit (SpecClient)       *)
(*                                                                         *)
(* The backend is what supabase.functions.invoke resolves with: an error,  *)
(* no data, data, data without the expected fields, or a rejection.        *)
(***************************************************************************)
MaxClientOps == 3    \* client operations in SpecClient

\* The texts the client loads or receives: "# a", "# a\nx\n## b" and "x".
ClientTexts ==
    { <<"#", " ", "a">>,
      <<"#", " ", "a", NL, "x", NL, "#", "#", " ", "b">>,
      <<"x">> }

\* The rows the backend answers with for a text.
RowsOf(content) ==
    LET parsed == parseMarkdownSections(content)
    IN  [i \in 1..Len(parsed) |->
            SectionRow(parsed[i], generateAISummary(parsed[i].content, TRUE))]

\* A thrown value that is no Error object.
NotAnError == "(not an Error)"

\* error instanceof Error ? error.message : fallback
Description(fallback) == IF thrown = NotAnError THEN fallback ELSE thrown

serverVars == <<dbVars, editVars, ops>>

ClientInit ==
    /\ ParseIdle
    /\ PlanIdle
    /\ SysInit
    /\ LoadIdle
    /\ ClientState
    /\ clientPc = "idle"
    /\ RetryIdle

\* loadDocument line 14 (FileLoader is rendered while the document state is
\* empty and is disabled while isProcessing).
ClientLoadStart ==
    /\ clientPc = "idle"
    /\ clientOps < MaxClientOps
    /\ clientDocument = <<>>
    /\ ~isProcessing
    /\ isProcessing' = TRUE
    /\ clientPc' = "loadInvoke"
    /\ backendCalls' = backendCalls + 1
    /\ UNCHANGED <<clientDocument, documentId, toast, thrown, clientOps, clientSections,
                   pendingUpdate,
                   serverVars, parseVars, planVars, loadVars, retryVars>>

\* loadDocument lines 20-53: the invoke settles and the rest of the try block
\* runs: a throw for an error or for no data, else the state is set and the
\* success toast shown. data.sections.map raises a TypeError when the data has
\* no sections, after setDocument and setDocumentId.
ClientLoadResolve ==
    /\ clientPc = "loadInvoke"
    /\ \/ /\ \E message \in {"Processing failed: Unknown error",
                               "No data returned from processing", NotAnError} :
                 thrown' = message
          /\ clientPc' = "loadCatch"
          /\ UNCHANGED <<clientDocument, documentId, toast, clientSections>>
       \/ \E content \in ClientTexts :
            \/ /\ clientDocument' = content
               /\ documentId' = ""          \* data.document_id is undefined
               /\ thrown' = "Cannot read properties of undefined (reading 'map')"
               /\ clientPc' = "loadCatch"
               /\ UNCHANGED <<toast, clientSections>>
            \/ /\ clientDocument' = content
               /\ documentId' = "id"
               /\ clientSections' = ClientSections(RowsOf(content))
               /\ toast' = [title |-> "Document loaded successfully",
                            description |-> "Processed sections",
                            variant |-> "default"]
               /\ clientPc' = "finally"
               /\ UNCHANGED thrown
    /\ UNCHANGED <<isProcessing, clientOps, backendCalls, pendingUpdate,
                   serverVars, parseVars, planVars, loadVars, retryVars>>

\* Mutant: the catch block ends the operation; isProcessing is reset at the end
\* of the try block only.
ClientCatchNoFinally ==
    /\ clientPc \in {"loadCatch", "editCatch"}
    /\ toast' = [title |-> IF clientPc = "loadCatch" THEN "Error loading document"
                                                     ELSE "AI edit failed",
                 description |-> Description("Failed to process the BRD file"),
                 variant |-> "destructive"]
    /\ clientPc' = "idle"
    /\ thrown' = ""
    /\ clientOps' = clientOps + 1
    /\ UNCHANGED <<isProcessing, clientDocument, documentId, clientSections,
                   backendCalls, pendingUpdate,
                   serverVars, parseVars, planVars, loadVars, retryVars>>

\* loadDocument lines 54-60 and processAIEdit lines 173-179: the catch block
\* shows the destructive toast.
ClientCatch ==
    /\ clientPc \in {"loadCatch", "editCatch"}
    /\ toast' = IF clientPc = "loadCatch"
                THEN [title |-> "Error loading document",
                      description |-> Description("Failed to process the BRD file"),
                      variant |-> "destructive"]
                ELSE [title |-> "AI edit failed",
                      description |-> Description("Failed to process your request"),
                      variant |-> "destructive"]
    /\ clientPc' = "finally"
    /\ UNCHANGED <<isProcessing, clientDocument, documentId, thrown, clientOps,
                   clientSections, backendCalls, pendingUpdate,
                   serverVars, parseVars, planVars, loadVars, retryVars>>

\* loadDocument lines 61-63 and processAIEdit lines 180-182: the finally block.
ClientFinally ==
    /\ clientPc = "finally"
    /\ isProcessing' = FALSE
    /\ clientPc' = "idle"
    /\ thrown' = ""
    /\ clientOps' = clientOps + 1
    /\ UNCHANGED <<clientDocument, documentId, toast, clientSections,
                   backendCalls, pendingUpdate,
                   serverVars, parseVars, planVars, loadVars, retryVars>>

\* processAIEdit lines 104-120: without a document id, or with a blank prompt,
\* a toast is shown and nothing else happens.
ClientEditRefused ==
    /\ clientPc = "idle"
    /\ clientOps < MaxClientOps
    /\ ~isProcessing
    /\ \E promptIsBlank \in BOOLEAN :
         /\ documentId = "" \/ promptIsBlank
         /\ toast' = IF documentId = ""
                     THEN [title |-> "No document loaded",
                           description |-> "Please load a document first",
                           variant |-> "destructive"]
                     ELSE [title |-> "Empty prompt",
                           description |-> "Please enter a description of the changes you want to make",
                           variant |-> "destructive"]
    /\ clientOps' = clientOps + 1
    /\ UNCHANGED <<isProcessing, clientPc, clientDocument, documentId, thrown,
                   clientSections, backendCalls, pendingUpdate,
                   serverVars, parseVars, planVars, loadVars, retryVars>>

\* processAIEdit line 122 (the SidePanel controls are disabled while
\* isProcessing).
ClientEditStart ==
    /\ clientPc = "idle"
    /\ clientOps < MaxClientOps
    /\ ~isProcessing
    /\ documentId # ""
    /\ isProcessing' = TRUE
    /\ clientPc' = "editInvoke"
    /\ backendCalls' = backendCalls + 1
    /\ UNCHANGED <<clientDocument, documentId, toast, thrown, clientOps, clientSections,
                   pendingUpdate,
                   serverVars, parseVars, planVars, loadVars, retryVars>>

\* processAIEdit lines 127-171: the invoke settles and the rest of the try block
\* runs: a throw for an error or for no data; else the document state is set,
\* the rows are read again (the read may fail, which is passed over, or reject)
\* and the success toast is shown.
ClientEditResolve ==
    /\ clientPc = "editInvoke"
    /\ \/ /\ \E message \in {"AI processing failed: Unknown error",
                               "No response from AI processing", NotAnError} :
                 thrown' = message
          /\ clientPc' = "editCatch"
          /\ UNCHANGED <<clientDocument, toast, clientSections, backendCalls>>
       \/ \E updated_content \in ClientTexts :
            /\ clientDocument' = updated_content
            /\ backendCalls' = backendCalls + 1     \* the rows are read again
            /\ \/ /\ thrown' = "Failed to fetch"
                  /\ clientPc' = "editCatch"
                  /\ UNCHANGED <<toast, clientSections>>
               \/ /\ \/ \E rowsText \in ClientTexts :
                          clientSections' = ClientSections(RowsOf(rowsText))
                     \/ UNCHANGED clientSections
                  /\ toast' = [title |-> "AI edit completed",
                               description |-> "Document updated successfully",
                               variant |-> "default"]
                  /\ clientPc' = "finally"
                  /\ UNCHANGED thrown
    /\ UNCHANGED <<isProcessing, documentId, clientOps, pendingUpdate,
                   serverVars, parseVars, planVars, loadVars, retryVars>>

\* updateDocument lines 67-70: without a document id the call returns at once.
ClientUpdateRefused ==
    /\ clientPc # "off"
    /\ clientOps < MaxClientOps
    /\ pendingUpdate = <<>>
    /\ documentId = ""
    /\ clientOps' = clientOps + 1
    /\ UNCHANGED <<isProcessing, clientPc, clientDocument, documentId, toast, thrown,
                   clientSections, backendCalls, pendingUpdate,
                   serverVars, parseVars, planVars, loadVars, retryVars>>

\* updateDocument lines 72-79: the update of brd_documents is sent (the Save
\* button is not disabled while isProcessing).
ClientUpdateStart ==
    /\ clientPc # "off"
    /\ clientOps < MaxClientOps
    /\ pendingUpdate = <<>>
    /\ documentId # ""
    /\ \E newText \in ClientTexts : pendingUpdate' = <<"sent", newText>>
    /\ backendCalls' = backendCalls + 1
    /\ UNCHANGED <<isProcessing, clientPc, clientDocument, documentId, toast, thrown,
                   clientOps, clientSections,
                   serverVars, parseVars, planVars, loadVars, retryVars>>

\* Mutant: the document and sections states are set before the error of the
\* update is looked at.
ClientUpdateResolveOptimistic ==
    /\ pendingUpdate # <<>>
    /\ pendingUpdate[1] = "sent"
    /\ clientDocument' = pendingUpdate[2]
    /\ clientSections' = ReparsedSections(pendingUpdate[2])
    /\ \/ /\ \E description \in {"Database update failed: error", "Failed to save changes"} :
                 pendingUpdate' = <<"catch", description>>
          /\ UNCHANGED clientOps
       \/ /\ pendingUpdate' = <<>>
          /\ clientOps' = clientOps + 1
    /\ UNCHANGED <<isProcessing, clientPc, documentId, toast, thrown, backendCalls,
                   serverVars, parseVars, planVars, loadVars, retryVars>>

\* updateDocument lines 81-91: the update settles: an error (or a rejection,
\* which is no Error object) is thrown; else the document state is set and the
\* sections are parsed again from the new text.
ClientUpdateResolve ==
    /\ pendingUpdate # <<>>
    /\ pendingUpdate[1] = "sent"
    /\ \/ /\ \E description \in {"Database update failed: error", "Failed to save changes"} :
                 pendingUpdate' = <<"catch", description>>
          /\ UNCHANGED <<clientDocument, clientSections, clientOps>>
       \/ /\ clientDocument' = pendingUpdate[2]
          /\ clientSections' = ReparsedSections(pendingUpdate[2])
          /\ pendingUpdate' = <<>>
          /\ clientOps' = clientOps + 1
    /\ UNCHANGED <<isProcessing, clientPc, documentId, toast, thrown, backendCalls,
                   serverVars, parseVars, planVars, loadVars, retryVars>>

\* updateDocument lines 92-99: the catch block shows the destructive toast.
ClientUpdateCatch ==
    /\ pendingUpdate # <<>>
    /\ pendingUpdate[1] = "catch"
    /\ toast' = [title |-> "Error updating document",
                 description |-> pendingUpdate[2],
                 variant |-> "destructive"]
    /\ pendingUpdate' = <<>>
    /\ clientOps' = clientOps + 1
    /\ UNCHANGED <<isProcessing, clientPc, clientDocument, documentId, thrown,
                   clientSections, backendCalls,
                   serverVars, parseVars, planVars, loadVars, retryVars>>

\* What the event loop runs once an operation was started.
ClientStep ==
    \/ ClientLoadResolve
    \/ ClientEditResolve
    \/ ClientUpdateResolve
    \/ ClientUpdateCatch
    \/ ClientCatch
    \/ ClientFinally

ClientNext ==
    \/ ClientLoadStart
    \/ ClientEditRefused
    \/ ClientEditStart
    \/ ClientUpdateRefused
    \/ ClientUpdateStart
    \/ ClientStep

\* The backend call settles and the continuation of a started operation runs.
SpecClient == ClientInit /\ [][ClientNext]_vars /\ WF_vars(ClientStep)

(***************************************************************************)
(* callOpenAIWithRetry (SpecRetry)                                         *)
(***************************************************************************)
MaxRetriesArg == 3   \* the largest maxRetries argument (3 is the default)

\* How a request can end: a completion with a text, a response that is not ok,
\* a body without choices[0].message, or a rejected fetch.
RequestOutcomes ==
    {[ok |-> TRUE, text |-> t] : t \in {"text 1", "text 2"}}
    \cup {[ok |-> FALSE, text |-> e] :
              e \in {"OpenAI API error", "Invalid response structure from OpenAI",
                     "fetch failed"}}

RECURSIVE Pow2(_)
Pow2(n) == IF n = 0 THEN 1 ELSE 2 * Pow2(n - 1)

RetryInit ==
    /\ ParseIdle
    /\ PlanIdle
    /\ SysInit
    /\ LoadIdle
    /\ ClientIdle
    /\ retryPc = "loop"
    /\ maxRetries \in 1..MaxRetriesArg
    /\ apiKey \in BOOLEAN
    /\ attempt = 1
    /\ requestLog = <<>>
    /\ waits = <<>>
    /\ retryResult = NoResult

\* Lines 255-259 and 301: without an API key the call throws at once; the loop
\* is entered while attempt <= maxRetries, and the statement after the loop
\* throws.
RetryLoop ==
    /\ retryPc = "loop"
    /\ IF attempt = 1 /\ ~apiKey
       THEN /\ retryPc' = "raised"
            /\ retryResult' = [kind |-> "error",
                               text |-> "OpenAI API key not configured",
                               attempts |-> 0]
       ELSE IF attempt <= maxRetries
       THEN /\ retryPc' = "request"
            /\ UNCHANGED retryResult
       ELSE /\ retryPc' = "raised"
            /\ retryResult' = [kind |-> "error",
                               text |-> "Unexpected error in OpenAI retry logic",
                               attempts |-> 0]
    /\ UNCHANGED <<maxRetries, apiKey, attempt, requestLog, waits,
                   sysVars, parseVars, planVars, loadVars, clientVars>>

\* Mutant: the catch block never throws; it waits after the last attempt too.
RetryRequestNoThrow ==
    /\ retryPc = "request"
    /\ \E outcome \in RequestOutcomes :
         /\ requestLog' = Append(requestLog, outcome)
         /\ IF outcome.ok
            THEN /\ retryPc' = "returned"
                 /\ retryResult' = [kind |-> "value", text |-> outcome.text, attempts |-> 0]
            ELSE /\ retryPc' = "wait"
                 /\ UNCHANGED retryResult
    /\ UNCHANGED <<maxRetries, apiKey, attempt, waits,
                   sysVars, parseVars, planVars, loadVars, clientVars>>

\* Lines 260-294: one request. A completion is returned; every failure lands in
\* the catch block, which throws after the last attempt and else goes on to
\* the wait.
RetryRequest ==
    /\ retryPc = "request"
    /\ \E outcome \in RequestOutcomes :
         /\ requestLog' = Append(requestLog, outcome)
         /\ IF outcome.ok
            THEN /\ retryPc' = "returned"
                 /\ retryResult' = [kind |-> "value", text |-> outcome.text, attempts |-> 0]
            ELSE IF attempt = maxRetries
            THEN /\ retryPc' = "raised"
                 /\ retryResult' = [kind |-> "error",
                                    text |-> "OpenAI API failed after attempts",
                                    attempts |-> maxRetries]
            ELSE /\ retryPc' = "wait"
                 /\ UNCHANGED retryResult
    /\ UNCHANGED <<maxRetries, apiKey, attempt, waits,
                   sysVars, parseVars, planVars, loadVars, clientVars>>

\* Line 297 and the loop's attempt++: the backoff of 2^attempt seconds.
RetryWait ==
    /\ retryPc = "wait"
    /\ waits' = Append(waits, Pow2(attempt))
    /\ attempt' = attempt + 1
    /\ retryPc' = "loop"
    /\ UNCHANGED <<maxRetries, apiKey, requestLog, retryResult,
                   sysVars, parseVars, planVars, loadVars, clientVars>>

RetryNext ==
    \/ RetryLoop
    \/ RetryRequest
    \/ RetryWait

\* Every request settles and every timer fires.
SpecRetry == RetryInit /\ [][RetryNext]_vars /\ WF_vars(RetryNext)

(***************************************************************************)
(* Claims on the parser (SpecParse)                                        *)
(***************************************************************************)
\* The 0-based indices of the lines of a text that are heading lines.
HeadingIndices(text) ==
    LET lines == Split(text)
    IN  {i - 1 : i \in {j \in 1..Len(lines) : HeaderMatch(lines[j]).ok}}

\* C4: the sections both parsers return are in document order with contiguous
\* line ranges: start <= end for each, end(i) + 1 = start(i+1) for neighbours, the
\* first starts at the first heading line and the last ends at the last line
\* of the text (line count - 1); a text without a heading line has no section.
C4_ContiguousRanges ==
    parseStage = "out" =>
        LET n == Len(outSections)
            lastLine == Len(Split(inText)) - 1
            heads == HeadingIndices(inText)
        IN  /\ Len(outClient) = n
            /\ (n = 0) <=> (heads = {})
            /\ \A i \in 1..n :
                   /\ outSections[i].start_index <= outSections[i].end_index
                   /\ outClient[i].startIndex <= outClient[i].endIndex
            /\ \A i \in 1..(n - 1) :
                   /\ outSections[i].end_index + 1 = outSections[i + 1].start_index
                   /\ outClient[i].endIndex + 1 = outClient[i + 1].startIndex
            /\ n >= 1 =>
                   /\ outSections[1].start_index = Min(heads)
                   /\ outClient[1].startIndex = Min(heads)
                   /\ outSections[n].end_index = lastLine
                   /\ outClient[n].endIndex = lastLine

\* A text with lines before the first heading, three sections and a section of
\* more than one line has been parsed.
C4_Witness ==
    /\ parseStage = "out"
    /\ Len(outSections) >= 3
    /\ outSections[1].start_index > 0
    /\ \E i \in 1..Len(outSections) :
           outSections[i].end_index > outSections[i].start_index

\* The content the lines first+1..last of a text give (0-based, inclusive).
ContentOfLines(text, first, last) == Trim(Join(Slice(Split(text), first, last + 1)))

\* C15: no line before the first heading line is in a section: every section
\* starts at or after the first heading line and its content is made of the
\* lines after its own heading line up to its end line; a text without a
\* heading line (the empty text included) has no section.
C15_PreambleDiscarded ==
    parseStage = "out" =>
        LET heads == HeadingIndices(inText)
        IN  /\ heads = {} => (outSections = <<>> /\ outClient = <<>>)
            /\ \A i \in 1..Len(outSections) :
                   /\ outSections[i].start_index >= Min(heads)
                   /\ outSections[i].start_index \in heads
                   /\ outSections[i].content =
                          ContentOfLines(inText, outSections[i].start_index + 1,
                                         outSections[i].end_index)
            /\ \A i \in 1..Len(outClient) :
                   /\ outClient[i].startIndex >= Min(heads)
                   /\ outClient[i].startIndex \in heads
                   /\ outClient[i].content =
                          ContentOfLines(inText, outClient[i].startIndex + 1,
                                         outClient[i].endIndex)

\* A text whose first line is the text line " x" and which has a heading later
\* has been parsed: the section list does not hold the " x".
C15_Witness ==
    /\ parseStage = "out"
    /\ Split(inText)[1] = <<" ", "x">>
    /\ Len(outSections) >= 1
    /\ outSections[1].start_index >= 1
    /\ outSections[1].content # <<>>

\* The line is one or more '#' followed by whitespace only.
OnlyMarksAndBlanks(line) ==
    LET h == LeadingHashes(line)
    IN  /\ h >= 1
        /\ Len(line) > h
        /\ \A k \in (h + 1)..Len(line) : IsSpace(line[k])

\* C19: for every section, the level is the number of leading '#' of its
\* heading line and the title is the rest of the line after the '#' with no
\* whitespace at either end, and is not empty; a line of '#' followed only by
\* whitespace opens no section.
C19_TitleTrimmed ==
    parseStage = "out" =>
        LET lines == Split(inText)
        IN  /\ \A i \in 1..Len(outSections) :
                   LET line == lines[outSections[i].start_index + 1]
                       h == LeadingHashes(line)
                   IN  /\ outSections[i].level = h
                       /\ outSections[i].title = Trim(Slice(line, h, Len(line)))
                       /\ outSections[i].title # <<>>
                       /\ outClient[i].level = h
                       /\ outClient[i].title = outSections[i].title
            /\ \A n \in 1..Len(lines) :
                   OnlyMarksAndBlanks(lines[n]) => (n - 1) \notin HeadingIndices(inText)

\* C22: the client's parseMarkdownSections and the server's compute the same
\* section list for every text: the same number of sections and, position by
\* position, the same title, level and content and the same line indices
\* (startIndex and endIndex on the client, start_index and end_index on the
\* server).
C22_ClientEqualsServer ==
    parseStage = "out" =>
        /\ Len(outClient) = Len(outSections)
        /\ \A i \in 1..Len(outSections) :
               /\ outClient[i].title = outSections[i].title
               /\ outClient[i].level = outSections[i].level
               /\ outClient[i].content = outSections[i].content
               /\ outClient[i].startIndex = outSections[i].start_index
               /\ outClient[i].endIndex = outSections[i].end_index

\* Both parsers have run on a text of two sections of different levels: the
\* first has a content that lost its leading whitespace, the second covers
\* more than its heading line and has an empty content.
C22_Witness ==
    /\ parseStage = "out"
    /\ Len(outSections) = 2
    /\ Len(outClient) = 2
    /\ outSections[1].level # outSections[2].level
    /\ outClient[1].content = <<"x">>
    /\ Len(Join(SubSeq(Split(inText), outSections[1].start_index + 2,
                                      outSections[1].end_index + 1))) > 1
    /\ outClient[2].content = <<>>
    /\ outClient[2].endIndex > outClient[2].startIndex

(***************************************************************************)
(* Claims on parseAIResponse (SpecPlan)                                    *)
(***************************************************************************)
\* The response holds no JSON the function can parse (nothing parseable is left
\* after the fence is removed and the outermost braces are cut out), or one of
\* the three fields of the parsed value is missing or is not a list.
MalformedResponse(responseText) ==
    LET parsed == CleanResponse(responseText)
    IN  \/ parsed.kind = "garbage"
        \/ parsed.sectionsToUpdate.kind # "list"
        \/ parsed.updatedSections.kind # "list"
        \/ parsed.summaryOfChanges.kind # "list"

IsEmptyPlan(plan) ==
    /\ plan.sectionsToUpdate = FList(<<>>)
    /\ plan.updatedSections = FList(<<>>)
    /\ plan.summaryOfChanges.kind = "list"
    /\ Len(plan.summaryOfChanges.items) = 1
    /\ plan.summaryOfChanges.items[1].kind = "str"
    /\ plan.summaryOfChanges.items[1].val[1] = "Error processing request: "

\* C8: parseAIResponse never raises, and for a response that is not parseable JSON
\* or lacks one of the three lists it returns the empty plan, whose
\* summaryOfChanges holds exactly one error message.
C8_MalformedDegrades ==
    planStage = "out" =>
        /\ ~outPlan.raised
        /\ MalformedResponse(inResponse) => IsEmptyPlan(outPlan.plan)

\* A prose-wrapped response without JSON, and an object without updatedSections,
\* have been handled.
C8_Witness ==
    /\ planStage = "out"
    /\ inResponse.payload.kind = "object"
    /\ inResponse.payload.updatedSections.kind = "undef"
    /\ inResponse.payload.sectionsToUpdate.kind = "list"
    /\ inResponse.payload.summaryOfChanges.kind = "list"
    /\ IsEmptyPlan(outPlan.plan)

\* An entry has no usable title or content: it is no object, or the field is
\* absent, null or the empty string.
Lacks(v) == v.kind \in {"undef", "null"} \/ (v.kind = "str" /\ v.val = <<>>)
EntryLacks(e) == e.kind # "obj" \/ Lacks(e.title) \/ Lacks(e.content)

\* C9: a returned plan has three list-valued fields and every entry of its
\* updatedSections has a non-empty title and content; one entry of the response
\* lacking a title or a content makes the whole plan the empty plan.
C9_AllOrNothing ==
    planStage = "out" =>
        LET plan == outPlan.plan
            given == CleanResponse(inResponse).updatedSections
        IN  /\ plan.sectionsToUpdate.kind = "list"
            /\ plan.updatedSections.kind = "list"
            /\ plan.summaryOfChanges.kind = "list"
            /\ \A i \in 1..Len(plan.updatedSections.items) :
                   ~EntryLacks(plan.updatedSections.items[i])
            /\ (\E i \in 1..Len(given.items) : EntryLacks(given.items[i]))
                   => IsEmptyPlan(plan)

\* A response with three lists whose updatedSections holds a complete entry and
\* one without content has been turned into the empty plan.
C9_Witness ==
    /\ planStage = "out"
    /\ ~MalformedResponse(inResponse)
    /\ LET given == inResponse.payload.updatedSections.items
       IN  /\ Len(given) = 2
           /\ ~EntryLacks(given[1])
           /\ given[2].kind = "obj" /\ ~Lacks(given[2].title) /\ Lacks(given[2].content)
    /\ IsEmptyPlan(outPlan.plan)

(***************************************************************************)
(* Claims on the AI edit (SpecEdit: one edit of a freshly loaded document; *)
(* Spec: the system, with manual saves and further edits)                  *)
(***************************************************************************)
\* The entries of updatedSections of the plan of the running edit.
Replacements == parsedResponse.updatedSections.items

\* A row or section of the list has exactly this title (the JSON value is a
\* string and every character is the same).
HasTitle(list, title) ==
    title.kind = "str" /\ \E i \in 1..Len(list) : list[i].title = title.val

FirstWithTitle(list, title) ==
    Min({i \in 1..Len(list) : list[i].title = title.val})

Names(reps, t) == \E i \in 1..Len(reps) : reps[i].title = JStr(t)

\* C1: after a non-empty list of replacements with distinct titles, each
\* matching a section of the document, the rebuilt text parses to a list that
\* holds every replaced section with the replacement's title and trimmed
\* content, and every section no replacement names with its content as before.
C1_ReplacementsReflected ==
    pc = "history" =>
        LET before == parseMarkdownSections(document)
            after == parseMarkdownSections(newContent)
        IN  ( /\ Replacements # <<>>
              /\ \A i \in 1..Len(Replacements) : HasTitle(before, Replacements[i].title)
              /\ \A i, j \in 1..Len(Replacements) :
                     i # j => Replacements[i].title # Replacements[j].title )
            => /\ \A i \in 1..Len(Replacements) :
                      \E m \in 1..Len(after) :
                          /\ after[m].title = Replacements[i].title.val
                          /\ after[m].content = Trim(Replacements[i].content.val)
               /\ \A j \in 1..Len(before) :
                      ~Names(Replacements, before[j].title) =>
                          \E m \in 1..Len(after) :
                              /\ after[m].title = before[j].title
                              /\ after[m].content = before[j].content

\* C2: one replacement whose title is that of the second of the three sections
\* of the document (and of no earlier one) leaves the content of the first and
\* of the last section of the re-parsed text as they were.
C2_MiddleReplacement ==
    pc = "history" =>
        LET before == parseMarkdownSections(document)
            after == parseMarkdownSections(newContent)
        IN  ( /\ Len(before) = 3
              /\ Len(Replacements) = 1
              /\ HasTitle(before, Replacements[1].title)
              /\ FirstWithTitle(before, Replacements[1].title) = 2 )
            => /\ Len(after) >= 3
               /\ after[1].content = before[1].content
               /\ after[Len(after)].content = before[3].content

\* C3: whenever no request is running, the stored section rows (title, level,
\* content, start_index, end_index) are the parse of the stored text.
C3_RowsAreParseOfText ==
    (docExists /\ pc = "idle") =>
        StoredSections(brd_sections) = parseMarkdownSections(current_content)

\* C5: an edit whose plan has no updatedSections entry writes back the very text
\* it read.
C5_EmptyPlanIdentity ==
    (pc = "history" /\ Replacements = <<>>) =>
        /\ newContent = document
        /\ current_content = document

\* The safe-empty plan of a response that is no JSON has been applied to a text
\* of several lines with a section.
C5_Witness ==
    /\ pc = "history"
    /\ Replacements = <<>>
    /\ parsedResponse.summaryOfChanges.items # <<>>
    /\ parsedResponse.summaryOfChanges.items[1].val[1] = "Error processing request: "
    /\ Len(Split(document)) >= 2
    /\ brd_sections # <<>>

\* The replacements whose title is the title of a row.
RECURSIVE MatchingOnly(_, _)
MatchingOnly(rows, reps) ==
    IF reps = <<>> THEN <<>>
    ELSE IF HasTitle(rows, Head(reps).title)
         THEN <<Head(reps)>> \o MatchingOnly(rows, Tail(reps))
         ELSE MatchingOnly(rows, Tail(reps))

\* The row contents after the replacements, each written to the first row of its
\* title.
RECURSIVE ContentsAfter(_, _)
ContentsAfter(contents, todo) ==
    IF todo = <<>> THEN contents
    ELSE ContentsAfter([contents EXCEPT ![Head(todo).row] = Head(todo).content],
                       Tail(todo))

\* C6: replacements whose title is no row's title change nothing: the text is
\* the one the matching replacements alone produce, no row is added, the rows
\* hold the contents the matching replacements alone give them, and a row no
\* matching replacement targets is as it was read.
C6_UnmatchedIsNoOp ==
    pc = "history" =>
        LET kept == MatchingOnly(sections, Replacements)
            todo == [i \in 1..Len(kept) |->
                        [row |-> FirstWithTitle(sections, kept[i].title),
                         content |-> kept[i].content.val]]
            contents == ContentsAfter([i \in 1..Len(sections) |-> sections[i].content],
                                      todo)
        IN  /\ newContent = RebuildContent(document, sections, kept)
            /\ Len(brd_sections) = Len(sections)
            /\ \A j \in 1..Len(sections) :
                   /\ brd_sections[j].content = contents[j]
                   /\ (\A i \in 1..Len(todo) : todo[i].row # j)
                          => brd_sections[j] = sections[j]
            /\ kept = <<>> => (newContent = document /\ brd_sections = sections)

\* A plan with the title "A", while a row has the title "a", and with a matching
\* entry has been applied.
C6_Witness ==
    /\ pc = "history"
    /\ Names(Replacements, <<"A">>)
    /\ ~HasTitle(sections, JStr(<<"A">>))
    /\ HasTitle(sections, JStr(<<"a">>))
    /\ \E i \in 1..Len(Replacements) : HasTitle(sections, Replacements[i].title)
    /\ newContent # document

\* The lines of a text before its first heading line.
Preamble(text) ==
    LET heads == HeadingIndices(text)
        lines == Split(text)
    IN  Slice(lines, 0, IF heads = {} THEN Len(lines) ELSE Min(heads))

\* C7: after replacements that all match a section of the document, the lines
\* before the first heading of the text read are the first lines of the text
\* written.
C7_PreambleKept ==
    pc = "history" =>
        LET before == parseMarkdownSections(document)
            pre == Preamble(document)
        IN  (\A i \in 1..Len(Replacements) : HasTitle(before, Replacements[i].title))
            => Slice(Split(newContent), 0, Len(pre)) = pre

\* C10: an edit that fails after its plan was obtained leaves every section row
\* as it was read (the text is written by the last step only, which a failed
\* edit has not reached).
C10_FailureLeavesRows ==
    (pc = "failed" /\ parsedResponse # NoPlan) => brd_sections = sections

\* The reference patcher: one pass over the lines of the original text. The
\* line range of every row a replacement targets is replaced by the
\* replacement's block, placed where the range started; every other line is
\* kept. All offsets are the rows' offsets in the original text.
RECURSIVE ReferenceLines(_, _, _, _)
ReferenceLines(lines, l, rows, reps) ==
    IF l >= Len(lines) THEN <<>>
    ELSE LET starting == {i \in 1..Len(reps) :
                             LET j == FindSection(rows, reps[i].title)
                             IN  j # 0 /\ rows[j].start_index = l}
             inside == {i \in 1..Len(reps) :
                           LET j == FindSection(rows, reps[i].title)
                           IN  /\ j # 0
                               /\ rows[j].start_index < l
                               /\ l <= rows[j].end_index}
             here == IF starting # {}
                     THEN LET i == Min(starting)
                          IN  <<NewSectionContent(rows[FindSection(rows, reps[i].title)],
                                                  reps[i])>>
                     ELSE IF inside # {} THEN <<>>
                     ELSE <<lines[l + 1]>>
         IN  here \o ReferenceLines(lines, l + 1, rows, reps)

ReferencePatch(text, rows, reps) == Join(ReferenceLines(Split(text), 0, rows, reps))

\* C16: for replacements with distinct titles, the text the sequential rebuild
\* loop writes is the text of the reference patcher, which splices every
\* replacement at the offsets of the original text.
C16_SequentialEqualsReference ==
    ( /\ pc = "history"
      /\ \A i \in 1..Len(Replacements) : Replacements[i].title.kind = "str"
      /\ \A i, j \in 1..Len(Replacements) :
             i # j => Replacements[i].title # Replacements[j].title )
    => newContent = ReferencePatch(document, sections, Replacements)

(***************************************************************************)
(* Claims on the order of the writes (Spec, SpecEdit)                      *)
(***************************************************************************)
\* C11: the writers of one document are serialized: when an AI edit writes the
\* rebuilt text back, the stored text is still the text the edit read, so no
\* manual save has been persisted between the edit's read and its write.
C11_SingleWriter ==
    [][(pc = "rows" /\ pc' = "history") => current_content = document]_vars

(***************************************************************************)
(* Claims on the client's section list (Spec)                              *)
(***************************************************************************)
\* C12: a manual save (updateDocument) gives every section of the new list whose
\* title is the title of a section of the previous list the summary of a
\* previous section of that title.
C12_SummaryCarriedOver ==
    [][(ops' = ops + 1 /\ pc' = pc) =>
          \A i \in 1..Len(clientSections') :
              (\E j \in 1..Len(clientSections) :
                   clientSections[j].title = clientSections'[i].title)
              => \E j \in 1..Len(clientSections) :
                     /\ clientSections[j].title = clientSections'[i].title
                     /\ clientSections[j].summary = clientSections'[i].summary]_vars

(***************************************************************************)
(* Claims on the document load (SpecLoad)                                  *)
(***************************************************************************)
\* C13: in a load the request of every section with content is outstanding as
\* soon as the summaries are awaited, whatever the others do; the rows are
\* stored and the load answers only when no summary is pending; every section's
\* summary depends on its own content and its own request alone: 'Empty
\* section' without a request for blank content, else the model's summary or
\* 'Summary generation failed'; and the load fails only when an insert fails.
C13_SummariesJoinBeforeStore ==
    /\ loadPc \in {"summaries", "stored"} =>
           \A i \in 1..Len(loadSections) :
               /\ summaryCalls[i] = (IF IsBlank(loadSections[i].content) THEN 0 ELSE 1)
               /\ IsBlank(loadSections[i].content) =>
                      summaries[i].kind = "Empty section"
               /\ ~IsBlank(loadSections[i].content) =>
                      \/ summaries[i] = Pending
                      \/ summaries[i].kind = "Summary generation failed"
                      \/ summaries[i] = [kind |-> "summary", of |-> loadSections[i].content]
    /\ (loadPc = "stored" \/ brd_sections # <<>>) =>
           /\ \A i \in 1..Len(summaries) : summaries[i] # Pending
           /\ Len(brd_sections) = Len(loadSections)
           /\ \A i \in 1..Len(brd_sections) : brd_sections[i].summary = summaries[i]
    /\ loadPc = "failed" =>
           /\ loadError \in {"Failed to save document", "Failed to save sections"}
           /\ brd_sections = <<>>
    /\ loadPc # "failed" => loadError = "none"

\* A load with three sections has stored its rows: one section is blank, one
\* request failed and one succeeded.
C13_Witness ==
    /\ loadPc = "stored"
    /\ Len(brd_sections) = 3
    /\ \E i, j, k \in 1..3 :
           /\ brd_sections[i].summary.kind = "Empty section"
           /\ brd_sections[j].summary.kind = "Summary generation failed"
           /\ brd_sections[k].summary.kind = "summary"

(***************************************************************************)
(* Claims on the client operations (SpecClient)                            *)
(***************************************************************************)
\* C14: whenever isProcessing is true it becomes false again, whatever the
\* backend call settles with; an error thrown in an operation is always on its
\* way to the catch block or handled (it never leaves the operation), and the
\* operation then ends with a destructive toast that has a title and a
\* description.
C14_ProcessingEnds ==
    /\ (isProcessing ~> ~isProcessing)
    /\ [](thrown # "" => clientPc \in {"loadCatch", "editCatch", "finally"})
    /\ []((clientPc = "finally" /\ thrown # "") =>
              /\ isProcessing
              /\ toast.variant = "destructive"
              /\ toast.title # ""
              /\ toast.description # "")

\* A load succeeded, then an AI edit failed: the failure toast is shown and
\* isProcessing is false again.
C14_Witness ==
    /\ clientPc = "idle"
    /\ clientOps = 2
    /\ documentId = "id"
    /\ ~isProcessing
    /\ toast.title = "AI edit failed"
    /\ toast.variant = "destructive"

\* The state of the hook that a failed operation has to keep.
ClientKept == <<clientDocument, documentId, clientSections>>

\* The step in which the backend call of loadDocument or of processAIEdit
\* settles with an error or with no data.
InvokeFails ==
    \/ /\ clientPc = "loadInvoke"
       /\ clientPc' = "loadCatch"
       /\ thrown' \in {"Processing failed: Unknown error", "No data returned from processing"}
    \/ /\ clientPc = "editInvoke"
       /\ clientPc' = "editCatch"
       /\ thrown' \in {"AI processing failed: Unknown error", "No response from AI processing"}

\* The step in which the database update of updateDocument settles with an
\* error.
UpdateFails ==
    /\ pendingUpdate # <<>>
    /\ pendingUpdate[1] = "sent"
    /\ pendingUpdate' = <<"catch", "Database update failed: error">>

\* The catch and finally blocks that run after a failure.
AfterFailure ==
    \/ clientPc \in {"loadCatch", "editCatch"} /\ clientPc' = "finally"
    \/ clientPc = "finally" /\ clientPc' = "idle"
    \/ pendingUpdate # <<>> /\ pendingUpdate[1] = "catch" /\ pendingUpdate' = <<>>

\* A call of updateDocument or of processAIEdit that ends at once: an operation
\* is counted although no operation was in flight.
EndsAtOnce ==
    /\ clientOps' = clientOps + 1
    /\ UNCHANGED <<clientPc, pendingUpdate>>

\* C21: a failed client operation leaves the client state as it was: when the
\* backend call of loadDocument or processAIEdit settles with an error or no
\* data, or the database update of updateDocument settles with an error, the
\* document, documentId and sections states keep their values, in that step
\* and in the catch and finally blocks after it; a call of updateDocument
\* without a document id, or of processAIEdit without a document id or with a
\* blank prompt, ends at once, issues no backend request and changes no state;
\* and no edit or update request is issued without a document id.
C21_FailureKeepsState ==
    [][ /\ (InvokeFails \/ UpdateFails \/ AfterFailure) => UNCHANGED ClientKept
        /\ EndsAtOnce => UNCHANGED <<ClientKept, isProcessing, backendCalls>>
        /\ documentId = "" =>
               /\ ~(clientPc # "editInvoke" /\ clientPc' = "editInvoke")
               /\ ~(pendingUpdate = <<>> /\ pendingUpdate' # <<>>)
      ]_vars

\* A document is loaded and an update of it has just failed: the document and
\* the sections are those of the load.
C21_Witness ==
    /\ pendingUpdate = <<"catch", "Database update failed: error">>
    /\ documentId = "id"
    /\ clientDocument # <<>>
    /\ clientSections = ClientSections(RowsOf(clientDocument))
    /\ clientSections # <<>>

(***************************************************************************)
(* Claims on the order of the steps of one AI edit (SpecEdit)              *)
(***************************************************************************)
\* C17: in an AI edit nothing is written while the plan is awaited; an edit
\* whose planner call failed has written nothing; the text and the history row
\* are not written while the row loop runs or after a failure; and when the
\* text has been written the row loop has handled every entry and every
\* matched row holds the content of an entry that targets it.
C17_PlanThenRowsThenText ==
    /\ pc = "plan" =>
           (brd_sections = sections /\ current_content = document /\ ai_edits = 0)
    /\ (pc = "failed" /\ parsedResponse = NoPlan) =>
           (brd_sections = sections /\ current_content = document /\ ai_edits = 0)
    /\ pc \in {"rows", "failed"} => (current_content = document /\ ai_edits = 0)
    /\ pc = "history" =>
           /\ ai_edits = 0
           /\ rowsDone = Len(Replacements)
           /\ \A i \in 1..Len(Replacements) :
                  LET j == FindSection(sections, Replacements[i].title)
                  IN  j # 0 =>
                          \E m \in i..Len(Replacements) :
                              /\ FindSection(sections, Replacements[m].title) = j
                              /\ brd_sections[j].content = Replacements[m].content.val

\* The text has been written after two entries updated two different rows.
C17_Witness ==
    /\ pc = "history"
    /\ Len(Replacements) = 2
    /\ FindSection(sections, Replacements[1].title) # 0
    /\ FindSection(sections, Replacements[2].title) # 0
    /\ FindSection(sections, Replacements[1].title)
           # FindSection(sections, Replacements[2].title)
    /\ current_content # document
    /\ \A j \in 1..Len(sections) : brd_sections[j].content # sections[j].content

(***************************************************************************)
(* Claims on callOpenAIWithRetry (SpecRetry)                               *)
(***************************************************************************)
RetryDone == retryPc \in {"returned", "raised"}

\* C18: callOpenAIWithRetry ends, by a return or a throw, after at most
\* maxRetries requests; a return gives the text of the only successful request,
\* which is the last one made; the k-th wait lasts 2^k seconds and follows the
\* k-th failed request when another request follows (none after the last);
\* after maxRetries failed requests it throws the error that names maxRetries.
C18_BoundedRetry ==
    /\ <>RetryDone
    /\ [](/\ Len(requestLog) <= maxRetries
          /\ \A k \in 1..Len(waits) : waits[k] = Pow2(k) /\ ~requestLog[k].ok
          /\ Len(waits) <= Len(requestLog)
          /\ Len(waits) < maxRetries
          /\ retryPc = "returned" =>
                 /\ requestLog # <<>>
                 /\ requestLog[Len(requestLog)].ok
                 /\ \A k \in 1..(Len(requestLog) - 1) : ~requestLog[k].ok
                 /\ retryResult = [kind |-> "value",
                                   text |-> requestLog[Len(requestLog)].text,
                                   attempts |-> 0]
                 /\ Len(waits) = Len(requestLog) - 1
          /\ (retryPc = "raised" /\ apiKey) =>
                 /\ Len(requestLog) = maxRetries
                 /\ \A k \in 1..Len(requestLog) : ~requestLog[k].ok
                 /\ retryResult.kind = "error"
                 /\ retryResult.attempts = maxRetries
                 /\ Len(waits) = maxRetries - 1
          /\ (retryPc = "raised" /\ ~apiKey) => requestLog = <<>>)

\* With the default of three attempts: two failures, waits of 2 and 4 seconds,
\* and a third request that succeeded.
C18_Witness ==
    /\ retryPc = "returned"
    /\ maxRetries = 3
    /\ Len(requestLog) = 3
    /\ waits = <<2, 4>>
    /\ retryResult.kind = "value"

(***************************************************************************)
(* Claims on sections with the same title (SpecEdit)                       *)
(***************************************************************************)
\* The contents, in document order, of the sections of a list with a title.
ContentsWithTitle(list, title) ==
    LET same == SelectSeq(list, LAMBDA x : x.title = title)
    IN  [k \in 1..Len(same) |-> same[k].content]

\* C20: when several rows have the title of a replacement, the first of them in
\* document order gets the replacement's content, every later row of that
\* title is as it was read, and the text written, parsed again, has the same
\* number of sections of that title, the later ones with their content as
\* before.
C20_FirstDuplicateOnly ==
    pc = "history" =>
        \A i \in 1..Len(Replacements) :
            LET j == FindSection(sections, Replacements[i].title)
                before == ContentsWithTitle(sections, sections[j].title)
                after == ContentsWithTitle(parseMarkdownSections(newContent),
                                           sections[j].title)
            IN  (j # 0 /\ Len(before) >= 2) =>
                    /\ \A m \in 1..(j - 1) : sections[m].title # sections[j].title
                    /\ \E n \in i..Len(Replacements) :
                           /\ Replacements[n].title = Replacements[i].title
                           /\ brd_sections[j].content = Replacements[n].content.val
                    /\ \A m \in (j + 1)..Len(sections) :
                           sections[m].title = sections[j].title =>
                               brd_sections[m] = sections[m]
                    /\ Len(after) = Len(before)
                    /\ Tail(after) = Tail(before)

====
